---------------------------- MODULE Spec2Model ----------------------------
(* Verification model of src/src/app.rs: the coordinator loop App::run,   *)
(* the throttled presenter App::update_progress, the render-flush thread   *)
(* spawned by App::new, the dirty-tracking wrapper TrackChange, the rate   *)
(* staircase App::fmt_speed and the path producer SourceWalker::run.       *)
(*                                                                         *)
(* Time is counted in whole milliseconds by the variable now; a handler    *)
(* runs in zero model time.  usize is modelled with USIZE_MAX = 2^31 - 1   *)
(* (the width of the checker's integers); every threshold of fmt_speed is  *)
(* derived from USIZE_MAX exactly as the code derives it.                  *)
EXTENDS Integers, Sequences, FiniteSets, TLC

VARIABLES
    (* the three channel ends of App::run and the engine behind them *)
    worker_ch,        \* events in flight, engine -> coordinator (worker_tx/worker_rx)
    worker_tx_alive,  \* FALSE once the engine dropped its Sender<WorkerEvent>
    user_ch,          \* replies in flight, coordinator -> engine (user_tx/user_rx)
    user_rx_alive,    \* FALSE once the engine dropped its Receiver<OperationControl>
    engine_pc,        \* "running" | "awaiting" (blocked on user_rx.recv) | "closed"
    (* the coordinator *)
    pc,               \* "recv" | "lock" | "printed" | "done" | "panicked"
    stats,            \* OperationStats
    app,              \* App: last_update and the four bars
    start,            \* let start = Instant::now()
    ela,              \* let ela = Instant::now().duration_since(start), in ms
    (* the render-flush thread and the completion lock *)
    pb_done,          \* Mutex<()> holder: "free" | "flush" | "main"
    flush_pc,         \* "spawned" | "joining" | "exited"
    draw_ch,          \* draw states in flight, bars -> MultiProgress::join
    objects_done,     \* bars whose finished draw state join has received
    term,             \* what has been written to the terminal, in order
    (* time *)
    now,              \* Instant::now(), in ms
    (* history *)
    emitted,          \* every event the engine sent, in order
    handled,          \* every event the coordinator's match has consumed, in order
    replies,          \* every OperationControl the coordinator sent, in order
    (* update_progress exercised alone *)
    upd,              \* calls so far, and the time and outcome of the last one
    (* TrackChange exercised alone *)
    tc, tc_ret, tc_expect, tc_dirty_since, tc_calls, tc_trues, tc_marks,
    (* fmt_speed exercised alone *)
    sp_x, sp_ela, sp_pc, sp_res,
    (* the path producer, SourceWalker::run *)
    sw_sources,       \* sources: Vec<PathBuf>, the roots
    sw_pc,            \* "idle" | "root" | "walk" | "done" | "panicked"
    sw_i,             \* the root the outer for loop is at
    sw_j,             \* the entry the WalkDir iterator of that root is at
    sw_src,           \* let src = src.canonicalize().unwrap()
    src_ch,           \* every (root, path) sent on src_tx, in order
    src_rx_alive      \* FALSE once the engine dropped its Receiver of paths

coordVars == <<worker_ch, worker_tx_alive, user_ch, user_rx_alive, engine_pc,
               pc, stats, app, start, ela, pb_done, flush_pc, draw_ch, objects_done,
               term, now, emitted, handled, replies>>
thVars == <<upd>>
tcVars == <<tc, tc_ret, tc_expect, tc_dirty_since, tc_calls, tc_trues, tc_marks>>
spVars == <<sp_x, sp_ela, sp_pc, sp_res>>
swVars == <<sw_sources, sw_pc, sw_i, sw_j, sw_src, src_ch, src_rx_alive>>
vars == <<coordVars, thVars, tcVars, spVars, swVars>>

-----------------------------------------------------------------------------
(* Bounds of the model *)

\* events the engine emits in one run
MaxEvents == 2
\* times the clock advances during one run
MaxTicks == 1
\* update_progress exercised alone: calls made, and the last millisecond
MaxUpdates == 4
MaxThrottleTime == 300
\* calls made on the TrackChange exercised alone
MaxTcOps == 5

\* the coordinator loop exercised alone: events handled, clock advances
MaxStatEvents == 3
MaxStatTicks == 2

\* files of a well-formed engine stream
MaxFiles == 3

\* roots given to the path producer
MaxRoots == 2

(* Program constants *)

\* Duration::from_millis(97)
THROTTLE_MS == 97
\* std::usize::MAX
USIZE_MAX == 2147483647
\* ProgressBar::new(10), ProgressBar::with_draw_target(10, ..)
INITIAL_LEN == 10

-----------------------------------------------------------------------------
(* TrackChange<T>: a value with a changed flag *)

TrackChange_new(val) == [val |-> val, changed |-> FALSE]

\* changed(): returns the flag and clears it; r is the return value, tc the
\* object afterwards
TrackChange_changed(t) == [r |-> t.changed, tc |-> [t EXCEPT !.changed = FALSE]]

\* set(val) without the comparison with the stored value
TrackChange_set_unchecked(t, val) == [val |-> val, changed |-> TRUE]

\* set(val): early return when val == self.val
TrackChange_set(t, val) ==
    IF val = t.val THEN t ELSE [val |-> val, changed |-> TRUE]

\* deref_mut() that hands out the reference and leaves the flag alone
TrackChange_deref_mut_unmarked(t, val) == [t EXCEPT !.val = val]

\* deref_mut() followed by the caller's write of val through the &mut T
TrackChange_deref_mut(t, val) == [val |-> val, changed |-> TRUE]

-----------------------------------------------------------------------------
(* std::time::Duration as the code uses it: whole seconds plus nanoseconds *)

Duration(secs, nanos) == [secs |-> secs, nanos |-> nanos]
Duration_from_secs(n) == Duration(n, 0)
Duration_from_millis(n) == Duration(n \div 1000, (n % 1000) * 1000000)
Duration_from_micros(n) == Duration(n \div 1000000, (n % 1000000) * 1000)
Duration_from_nanos(n) == Duration(n \div 1000000000, n % 1000000000)

\* the derived PartialOrd of Duration, a > b
Duration_gt(a, b) ==
    \/ a.secs > b.secs
    \/ a.secs = b.secs /\ a.nanos > b.nanos

as_secs(d) == d.secs
as_millis(d) == d.secs * 1000 + d.nanos \div 1000000
as_micros(d) == d.secs * 1000000 + d.nanos \div 1000

-----------------------------------------------------------------------------
(* App::fmt_speed.  The result is the integer the code hands to HumanBytes, *)
(* or the panic of an integer division by zero.                             *)

Speed(n) == [panic |-> "no", speed |-> n]
Panic(why) == [panic |-> why, speed |-> 0]

\* a * b on usize: overflows (a panic in a debug build, a wrapped product in
\* a release build) when the product exceeds USIZE_MAX
usize_mul_overflows(a, b) == b > 0 /\ a > USIZE_MAX \div b

\* a * b / c on usize, as the staircase computes it
usize_mul_div(a, b, c) ==
    IF usize_mul_overflows(a, b) THEN Panic("overflow")
    ELSE IF c = 0 THEN Panic("divide by zero")
    ELSE Speed((a * b) \div c)

\* fmt_speed with the whole-seconds branch guarded like its siblings
fmt_speed_guarded(x, d) ==
    IF Duration_gt(d, Duration_from_secs(1)) /\ x < USIZE_MAX \div 1000
    THEN usize_mul_div(x, 1, as_secs(d))
    ELSE IF Duration_gt(d, Duration_from_micros(1)) /\ x < USIZE_MAX \div 1000
    THEN usize_mul_div(x, 1000, as_micros(d))
    ELSE Speed(0)

fmt_speed(x, d) ==
    IF Duration_gt(d, Duration_from_secs(1))
    THEN usize_mul_div(x, 1, as_secs(d))
    ELSE IF Duration_gt(d, Duration_from_micros(1)) /\ x < USIZE_MAX \div 1000
    THEN usize_mul_div(x, 1000, as_micros(d))
    ELSE IF Duration_gt(d, Duration_from_millis(1)) /\ x < USIZE_MAX \div 1000000
    THEN usize_mul_div(x, 1000000, as_millis(d))
    ELSE IF Duration_gt(d, Duration_from_nanos(1)) /\ x < USIZE_MAX \div 1000000000
    THEN usize_mul_div(x, 1000000000, as_millis(d))
    ELSE Speed(0)

-----------------------------------------------------------------------------
(* WorkerEvent and OperationControl *)

Ev(kind, path, chunk, done, todo, n, msg) ==
    [kind |-> kind, path |-> path, chunk |-> chunk, done |-> done,
     todo |-> todo, n |-> n, msg |-> msg]

FilesDone == Ev("FilesDone", "", 0, 0, 0, 0, "")
FilesTotal == Ev("FilesTotal", "", 0, 0, 0, 0, "")
BytesTotal(n) == Ev("BytesTotal", "", 0, 0, 0, n, "")
Current(p, chunk, done, todo) == Ev("Current", p, chunk, done, todo, 0, "")
StatusError(msg) == Ev("Error", "", 0, 0, 0, 0, msg)
StatusOther == Ev("Other", "", 0, 0, 0, 0, "")

\* the events the engine draws from in a run: every variant, and two error
\* messages
Messages == {"disk full", "denied"}

Events ==
    {FilesDone, FilesTotal, StatusOther, BytesTotal(2), Current("a", 1, 1, 2)}
    \cup {StatusError(m) : m \in Messages}

OperationControl == {"Retry", "Skip", "Abort"}

-----------------------------------------------------------------------------
(* OperationStats::default and App::new *)

OperationStats_default(t) ==
    [files_done |-> 0, bytes_done |-> 0,
     files_total |-> TrackChange_new(0),
     bytes_total |-> TrackChange_new(0),
     current_total |-> TrackChange_new(0),
     current_done |-> 0,
     current_path |-> TrackChange_new(""),
     current_start |-> t]

Bar(len) == [len |-> len, pos |-> 0, msg |-> "", rate |-> 0, ticks |-> 0,
             finished |-> FALSE]

Bars == {"pb_name", "pb_curr", "pb_files", "pb_bytes"}

App_new(t) ==
    [pb_name |-> Bar(INITIAL_LEN), pb_curr |-> Bar(INITIAL_LEN),
     pb_files |-> Bar(INITIAL_LEN), pb_bytes |-> Bar(INITIAL_LEN),
     last_update |-> t]

\* error_ask asking for a retry of one kind of error
error_ask_retry(err) == IF err = "denied" THEN "Retry" ELSE "Skip"

\* App::error_ask
error_ask(err) == "Skip"

-----------------------------------------------------------------------------
(* App::update_progress(stats) called at time t.  drew says whether the    *)
(* redraw proceeded, panic whether fmt_speed panicked inside it.            *)

\* the throttle test with the interval itself still suppressed
throttled_inclusive(a, t) == t - a.last_update <= THROTTLE_MS

\* Instant::now().duration_since(self.last_update) < Duration::from_millis(97)
throttled(a, t) == t - a.last_update < THROTTLE_MS

update_progress(a, s, t) ==
    IF throttled(a, t)
    THEN [app |-> a, stats |-> s, drew |-> FALSE, panic |-> FALSE]
    ELSE
      LET cp == TrackChange_changed(s.current_path)
          ft == TrackChange_changed(s.files_total)
          bt == TrackChange_changed(s.bytes_total)
          current_start == IF cp.r THEN t ELSE s.current_start
          curr_duration == Duration_from_millis(t - current_start)
          rate == fmt_speed(s.current_done, curr_duration)
          name == [a.pb_name EXCEPT
                      !.ticks = @ + 1,
                      !.msg = IF cp.r THEN s.current_path.val ELSE @]
          curr == [a.pb_curr EXCEPT
                      !.len = IF cp.r THEN s.current_total.val ELSE @,
                      !.pos = s.current_done,
                      !.rate = rate.speed]
          files == [a.pb_files EXCEPT
                      !.len = IF ft.r THEN s.files_total.val ELSE @,
                      !.pos = s.files_done]
          bytes == [a.pb_bytes EXCEPT
                      !.len = IF bt.r THEN s.bytes_total.val ELSE @,
                      !.pos = s.bytes_done]
      IN  IF rate.panic /= "no"
          THEN [app |-> [a EXCEPT !.last_update = t, !.pb_name = name],
                stats |-> [s EXCEPT !.current_path = cp.tc,
                                    !.current_start = current_start],
                drew |-> TRUE, panic |-> TRUE]
          ELSE [app |-> [pb_name |-> name, pb_curr |-> curr,
                         pb_files |-> files, pb_bytes |-> bytes,
                         last_update |-> t],
                stats |-> [s EXCEPT !.current_path = cp.tc,
                                    !.files_total = ft.tc,
                                    !.bytes_total = bt.tc,
                                    !.current_start = current_start],
                drew |-> TRUE, panic |-> FALSE]


-----------------------------------------------------------------------------
(* The engine behind the channels (the copy module): it sends events,      *)
(* blocks after a Status(Error) until the reply arrives, and finally drops *)
(* its channel ends.                                                        *)

EngineEmit(ev) ==
    /\ engine_pc = "running"
    /\ Len(emitted) < MaxEvents
    /\ worker_ch' = Append(worker_ch, ev)
    /\ emitted' = Append(emitted, ev)
    /\ engine_pc' = IF ev.kind = "Error" THEN "awaiting" ELSE "running"
    /\ UNCHANGED <<worker_tx_alive, user_ch, user_rx_alive, pc, stats, app,
                   start, ela, pb_done, flush_pc, draw_ch, objects_done, term,
                   now, handled, replies,
                   thVars, tcVars, spVars, swVars>>

EngineRecvReply ==
    /\ engine_pc = "awaiting"
    /\ user_ch /= <<>>
    /\ user_ch' = Tail(user_ch)
    /\ engine_pc' = "running"
    /\ UNCHANGED <<worker_ch, worker_tx_alive, user_rx_alive, pc, stats, app,
                   start, ela, pb_done, flush_pc, draw_ch, objects_done, term,
                   now, emitted, handled, replies,
                   thVars, tcVars, spVars, swVars>>

EngineClose ==
    /\ engine_pc = "running"
    /\ engine_pc' = "closed"
    /\ worker_tx_alive' = FALSE
    /\ user_rx_alive' = FALSE
    /\ UNCHANGED <<worker_ch, user_ch, pc, stats, app, start, ela, pb_done,
                   flush_pc, draw_ch, objects_done, term, now, emitted,
                   handled, replies,
                   thVars, tcVars, spVars, swVars>>

-----------------------------------------------------------------------------
(* App::run, the loop `while let Ok(event) = worker_rx.recv()`: one action *)
(* per match arm, each ending with the update_progress call of line 227.   *)

DrawState(bar, finished) ==
    [kind |-> "draw", bar |-> bar, finished |-> finished,
     files |-> 0, bytes |-> 0, speed |-> 0]

\* the event at the head of the channel is consumed, the arm has left the
\* statistics as s1, and update_progress runs
Handled(ev, s1) ==
    LET u == update_progress(app, s1, now) IN
    /\ worker_ch' = Tail(worker_ch)
    /\ handled' = Append(handled, ev)
    /\ stats' = u.stats
    /\ app' = u.app
    /\ draw_ch' = IF u.drew /\ ~u.panic
                  THEN Append(draw_ch, DrawState("all", FALSE))
                  ELSE draw_ch
    /\ pc' = IF u.panic THEN "panicked" ELSE "recv"

Receives(kind) ==
    /\ pc = "recv"
    /\ worker_ch /= <<>>
    /\ Head(worker_ch).kind = kind

\* the FilesDone arm counting a finished file twice
RecvFilesDone_twice ==
    /\ Receives("FilesDone")
    /\ Handled(Head(worker_ch), [stats EXCEPT !.files_done = @ + 2])
    /\ UNCHANGED <<worker_tx_alive, user_ch, user_rx_alive, engine_pc, start,
                   ela, pb_done, flush_pc, objects_done, term, now, emitted,
                   replies,
                   thVars, tcVars, spVars, swVars>>

RecvFilesDone ==
    /\ Receives("FilesDone")
    /\ Handled(Head(worker_ch), [stats EXCEPT !.files_done = @ + 1])
    /\ UNCHANGED <<worker_tx_alive, user_ch, user_rx_alive, engine_pc, start,
                   ela, pb_done, flush_pc, objects_done, term, now, emitted,
                   replies,
                   thVars, tcVars, spVars, swVars>>

RecvFilesTotal ==
    /\ Receives("FilesTotal")
    /\ Handled(Head(worker_ch),
               [stats EXCEPT !.files_total =
                    TrackChange_deref_mut(@, @.val + 1)])
    /\ UNCHANGED <<worker_tx_alive, user_ch, user_rx_alive, engine_pc, start,
                   ela, pb_done, flush_pc, objects_done, term, now, emitted,
                   replies,
                   thVars, tcVars, spVars, swVars>>

\* the BytesTotal arm storing the size instead of adding it
RecvBytesTotal_assigns ==
    /\ Receives("BytesTotal")
    /\ Handled(Head(worker_ch),
               [stats EXCEPT !.bytes_total =
                    TrackChange_deref_mut(@, Head(worker_ch).n)])
    /\ UNCHANGED <<worker_tx_alive, user_ch, user_rx_alive, engine_pc, start,
                   ela, pb_done, flush_pc, objects_done, term, now, emitted,
                   replies,
                   thVars, tcVars, spVars, swVars>>

RecvBytesTotal ==
    /\ Receives("BytesTotal")
    /\ Handled(Head(worker_ch),
               [stats EXCEPT !.bytes_total =
                    TrackChange_deref_mut(@, @.val + Head(worker_ch).n)])
    /\ UNCHANGED <<worker_tx_alive, user_ch, user_rx_alive, engine_pc, start,
                   ela, pb_done, flush_pc, objects_done, term, now, emitted,
                   replies,
                   thVars, tcVars, spVars, swVars>>

\* the Current arm storing the bytes done of the file as the aggregate
RecvCurrent_sets_done ==
    /\ Receives("Current")
    /\ LET ev == Head(worker_ch) IN
       Handled(ev, [stats EXCEPT
                       !.current_path = TrackChange_set(@, ev.path),
                       !.current_total = TrackChange_set(@, ev.todo),
                       !.current_done = ev.done,
                       !.bytes_done = ev.done])
    /\ UNCHANGED <<worker_tx_alive, user_ch, user_rx_alive, engine_pc, start,
                   ela, pb_done, flush_pc, objects_done, term, now, emitted,
                   replies,
                   thVars, tcVars, spVars, swVars>>

\* the Current arm adding the bytes done of the file instead of the chunk
RecvCurrent_adds_done ==
    /\ Receives("Current")
    /\ LET ev == Head(worker_ch) IN
       Handled(ev, [stats EXCEPT
                       !.current_path = TrackChange_set(@, ev.path),
                       !.current_total = TrackChange_set(@, ev.todo),
                       !.current_done = ev.done,
                       !.bytes_done = @ + ev.done])
    /\ UNCHANGED <<worker_tx_alive, user_ch, user_rx_alive, engine_pc, start,
                   ela, pb_done, flush_pc, objects_done, term, now, emitted,
                   replies,
                   thVars, tcVars, spVars, swVars>>

RecvCurrent ==
    /\ Receives("Current")
    /\ LET ev == Head(worker_ch) IN
       Handled(ev, [stats EXCEPT
                       !.current_path = TrackChange_set(@, ev.path),
                       !.current_total = TrackChange_set(@, ev.todo),
                       !.current_done = ev.done,
                       !.bytes_done = @ + ev.chunk])
    /\ UNCHANGED <<worker_tx_alive, user_ch, user_rx_alive, engine_pc, start,
                   ela, pb_done, flush_pc, objects_done, term, now, emitted,
                   replies,
                   thVars, tcVars, spVars, swVars>>

\* the error arm asking for the answer and not sending it
RecvError_silent ==
    /\ Receives("Error")
    /\ Handled(Head(worker_ch), stats)
    /\ UNCHANGED <<worker_tx_alive, user_ch, user_rx_alive, engine_pc, start,
                   ela, pb_done, flush_pc, objects_done, term, now, emitted,
                   replies, thVars, tcVars, spVars, swVars>>

\* user_tx.send(answer).expect("send") panics when the receiver is gone
RecvError ==
    /\ Receives("Error")
    /\ LET ev == Head(worker_ch)
           answer == error_ask(ev.msg)
       IN  IF user_rx_alive
           THEN /\ user_ch' = Append(user_ch, answer)
                /\ replies' = Append(replies, answer)
                /\ Handled(ev, stats)
           ELSE /\ worker_ch' = Tail(worker_ch)
                /\ handled' = Append(handled, ev)
                /\ pc' = "panicked"
                /\ UNCHANGED <<user_ch, replies, stats, app, draw_ch,
                   thVars, tcVars, spVars, swVars>>
    /\ UNCHANGED <<worker_tx_alive, user_rx_alive, engine_pc, start, ela,
                   pb_done, flush_pc, objects_done, term, now, emitted,
                   thVars, tcVars, spVars, swVars>>

\* the catch-all arm answering a status it does not know with Abort
RecvOther_abort ==
    /\ Receives("Other")
    /\ user_ch' = Append(user_ch, "Abort")
    /\ replies' = Append(replies, "Abort")
    /\ Handled(Head(worker_ch), stats)
    /\ UNCHANGED <<worker_tx_alive, user_rx_alive, engine_pc, start, ela,
                   pb_done, flush_pc, objects_done, term, now, emitted,
                   thVars, tcVars, spVars, swVars>>

RecvOther ==
    /\ Receives("Other")
    /\ Handled(Head(worker_ch), stats)
    /\ UNCHANGED <<worker_tx_alive, user_ch, user_rx_alive, engine_pc, start,
                   ela, pb_done, flush_pc, objects_done, term, now, emitted,
                   replies,
                   thVars, tcVars, spVars, swVars>>

\* recv() returns Err: the channel is empty and every sender is dropped.
\* Lines 229-233: the four finish() calls, then ela.
DrawStates(bars) == [i \in 1 .. Len(bars) |-> DrawState(bars[i], TRUE)]

\* the finish() calls with pb_name.finish() left out
FinishedBars_but_name == <<"pb_curr", "pb_files", "pb_bytes">>

FinishedBars == <<"pb_curr", "pb_files", "pb_bytes", "pb_name">>

Finish(a) ==
    [a EXCEPT !.pb_curr.finished = TRUE, !.pb_files.finished = TRUE,
              !.pb_bytes.finished = TRUE, !.pb_name.finished = TRUE]

RecvClosed ==
    /\ pc = "recv"
    /\ worker_ch = <<>>
    /\ ~worker_tx_alive
    /\ app' = Finish(app)
    /\ draw_ch' = draw_ch \o DrawStates(FinishedBars)
    /\ ela' = now - start
    /\ pc' = "lock"
    /\ UNCHANGED <<worker_ch, worker_tx_alive, user_ch, user_rx_alive,
                   engine_pc, stats, start, pb_done, flush_pc, objects_done,
                   term, now, emitted, handled, replies,
                   thVars, tcVars, spVars, swVars>>

\* lines 234-236: self.pb_done.lock(), then println!
Summary(s, e) ==
    [kind |-> "summary", bar |-> "", finished |-> FALSE,
     files |-> s.files_total.val, bytes |-> s.bytes_total.val,
     speed |-> fmt_speed(s.bytes_total.val, Duration_from_millis(e)).speed]

LockAndPrint ==
    /\ pc = "lock"
    /\ pb_done = "free"
    /\ pb_done' = "main"
    /\ term' = Append(term, Summary(stats, ela))
    /\ pc' = IF fmt_speed(stats.bytes_total.val,
                           Duration_from_millis(ela)).panic /= "no"
             THEN "panicked" ELSE "printed"
    /\ UNCHANGED <<worker_ch, worker_tx_alive, user_ch, user_rx_alive,
                   engine_pc, stats, app, start, ela, flush_pc, draw_ch,
                   objects_done, now, emitted, handled, replies,
                   thVars, tcVars, spVars, swVars>>

\* line 237: _locked goes out of scope
Return ==
    /\ pc = "printed"
    /\ pb_done' = "free"
    /\ pc' = "done"
    /\ UNCHANGED <<worker_ch, worker_tx_alive, user_ch, user_rx_alive,
                   engine_pc, stats, app, start, ela, flush_pc, draw_ch,
                   objects_done, term, now, emitted, handled, replies,
                   thVars, tcVars, spVars, swVars>>

-----------------------------------------------------------------------------
(* The render-flush thread of App::new: lock pb_done, then                 *)
(* MultiProgress::join, which draws every draw state it receives until     *)
(* every bar has sent a finished one.                                       *)

FlushLock ==
    /\ flush_pc = "spawned"
    /\ pb_done = "free"
    /\ pb_done' = "flush"
    /\ flush_pc' = "joining"
    /\ UNCHANGED <<worker_ch, worker_tx_alive, user_ch, user_rx_alive,
                   engine_pc, pc, stats, app, start, ela, draw_ch,
                   objects_done, term, now, emitted, handled, replies,
                   thVars, tcVars, spVars, swVars>>

FlushDraw ==
    /\ flush_pc = "joining"
    /\ objects_done /= Bars
    /\ draw_ch /= <<>>
    /\ draw_ch' = Tail(draw_ch)
    /\ objects_done' = IF Head(draw_ch).finished
                       THEN objects_done \cup {Head(draw_ch).bar}
                       ELSE objects_done
    /\ term' = Append(term, Head(draw_ch))
    /\ UNCHANGED <<worker_ch, worker_tx_alive, user_ch, user_rx_alive,
                   engine_pc, pc, stats, app, start, ela, pb_done, flush_pc,
                   now, emitted, handled, replies,
                   thVars, tcVars, spVars, swVars>>

FlushExit ==
    /\ flush_pc = "joining"
    /\ objects_done = Bars
    /\ flush_pc' = "exited"
    /\ pb_done' = "free"
    /\ UNCHANGED <<worker_ch, worker_tx_alive, user_ch, user_rx_alive,
                   engine_pc, pc, stats, app, start, ela, draw_ch,
                   objects_done, term, now, emitted, handled, replies,
                   thVars, tcVars, spVars, swVars>>

-----------------------------------------------------------------------------
(* Time passes *)

\* The clock is read only by the loop of App::run, when recv() has returned:
\* it is advanced only when the coordinator is about to read it, by the
\* throttle interval, so that the update that follows redraws.
Tick ==
    /\ pc = "recv"
    /\ worker_ch /= <<>> \/ ~worker_tx_alive
    /\ now < MaxTicks * THROTTLE_MS
    /\ now' = now + THROTTLE_MS
    /\ UNCHANGED <<worker_ch, worker_tx_alive, user_ch, user_rx_alive,
                   engine_pc, pc, stats, app, start, ela, pb_done, flush_pc,
                   draw_ch, objects_done, term, emitted, handled, replies,
                   thVars, tcVars, spVars, swVars>>

-----------------------------------------------------------------------------
(* The run *)

CoordInit ==
    /\ worker_ch = <<>>
    /\ worker_tx_alive = TRUE
    /\ user_ch = <<>>
    /\ user_rx_alive = TRUE
    /\ engine_pc = "running"
    /\ pc = "recv"
    /\ stats = OperationStats_default(0)
    /\ app = App_new(0)
    /\ start = 0
    /\ ela = 0
    /\ pb_done = "free"
    /\ flush_pc = "spawned"
    /\ draw_ch = <<>>
    /\ objects_done = {}
    /\ term = <<>>
    /\ now = 0
    /\ emitted = <<>>
    /\ handled = <<>>
    /\ replies = <<>>

TcIdle ==
    /\ tc = TrackChange_new(0)
    /\ tc_ret = FALSE
    /\ tc_expect = FALSE
    /\ tc_dirty_since = FALSE
    /\ tc_calls = 0
    /\ tc_trues = 0
    /\ tc_marks = 0

ThIdle ==
    upd = [n |-> 0, t |-> 0, drew |-> FALSE]

SpIdle ==
    /\ sp_x = 0
    /\ sp_ela = Duration(0, 0)
    /\ sp_pc = "idle"
    /\ sp_res = Speed(0)

SwIdle ==
    /\ sw_sources = <<>>
    /\ sw_pc = "idle"
    /\ sw_i = 0
    /\ sw_j = 0
    /\ sw_src = ""
    /\ src_ch = <<>>
    /\ src_rx_alive = TRUE

Init == CoordInit /\ ThIdle /\ TcIdle /\ SpIdle /\ SwIdle

Next ==
    \/ \E ev \in Events : EngineEmit(ev)
    \/ EngineRecvReply
    \/ EngineClose
    \/ RecvFilesDone
    \/ RecvFilesTotal
    \/ RecvBytesTotal
    \/ RecvCurrent
    \/ RecvError
    \/ RecvOther
    \/ RecvClosed
    \/ LockAndPrint
    \/ Return
    \/ FlushLock
    \/ FlushDraw
    \/ FlushExit
    \/ Tick

Spec == Init /\ [][Next]_vars

\* the threads are scheduled by the operating system: a step that stays
\* possible is eventually taken
FairSpec ==
    /\ Spec
    /\ WF_vars(RecvFilesDone \/ RecvFilesTotal \/ RecvBytesTotal \/ RecvCurrent
                  \/ RecvError \/ RecvOther \/ RecvClosed \/ LockAndPrint
                  \/ Return)
    /\ WF_vars(FlushLock \/ FlushDraw \/ FlushExit)


-----------------------------------------------------------------------------
(* App::update_progress exercised alone: the presenter is updated at any   *)
(* moments of a clock that advances by 48 or 49 ms, which puts two calls   *)
(* 0, 48, 49, 96, 97, 98 and more milliseconds apart.                       *)

ThrottleSteps == {48, 49}

ThTick(d) ==
    /\ now + d <= MaxThrottleTime
    /\ now' = now + d
    /\ UNCHANGED <<worker_ch, worker_tx_alive, user_ch, user_rx_alive,
                   engine_pc, pc, stats, app, start, ela, pb_done, flush_pc,
                   draw_ch, objects_done, term, emitted, handled, replies,
                   thVars, tcVars, spVars, swVars>>

ThUpdate ==
    LET u == update_progress(app, stats, now) IN
    /\ upd.n < MaxUpdates
    /\ app' = u.app
    /\ stats' = u.stats
    /\ draw_ch' = IF u.drew THEN Append(draw_ch, DrawState("all", FALSE))
                  ELSE draw_ch
    /\ upd' = [n |-> upd.n + 1, t |-> now, drew |-> u.drew]
    /\ UNCHANGED <<worker_ch, worker_tx_alive, user_ch, user_rx_alive,
                   engine_pc, pc, start, ela, pb_done, flush_pc,
                   objects_done, term, now, emitted, handled, replies,
                   tcVars, spVars, swVars>>

ThNext ==
    \/ \E d \in ThrottleSteps : ThTick(d)
    \/ ThUpdate

SpecThrottle == Init /\ [][ThNext]_vars


-----------------------------------------------------------------------------
(* A TrackChange<usize> exercised alone: any sequence of set, mutable      *)
(* access and changed() calls.  tc_dirty_since records whether a set to a  *)
(* different value or a mutable access happened since the last changed();  *)
(* tc_expect is that record at the moment of the last changed() call and   *)
(* tc_ret what the call returned.                                           *)

TcValues == 0 .. 2

TcSet(v) ==
    /\ tc_calls < MaxTcOps
    /\ tc' = TrackChange_set(tc, v)
    /\ tc_dirty_since' = (tc_dirty_since \/ v /= tc.val)
    /\ tc_marks' = IF v /= tc.val THEN tc_marks + 1 ELSE tc_marks
    /\ tc_calls' = tc_calls + 1
    /\ UNCHANGED <<tc_ret, tc_expect, tc_trues, coordVars, thVars, spVars, swVars>>

TcDerefMut(v) ==
    /\ tc_calls < MaxTcOps
    /\ tc' = TrackChange_deref_mut(tc, v)
    /\ tc_dirty_since' = TRUE
    /\ tc_marks' = tc_marks + 1
    /\ tc_calls' = tc_calls + 1
    /\ UNCHANGED <<tc_ret, tc_expect, tc_trues, coordVars, thVars, spVars, swVars>>

TcChanged ==
    /\ tc_calls < MaxTcOps
    /\ tc' = TrackChange_changed(tc).tc
    /\ tc_ret' = TrackChange_changed(tc).r
    /\ tc_expect' = tc_dirty_since
    /\ tc_dirty_since' = FALSE
    /\ tc_trues' = IF TrackChange_changed(tc).r THEN tc_trues + 1 ELSE tc_trues
    /\ tc_calls' = tc_calls + 1
    /\ UNCHANGED <<tc_marks, coordVars, thVars, spVars, swVars>>

TcNext ==
    \/ \E v \in TcValues : TcSet(v)
    \/ \E v \in TcValues : TcDerefMut(v)
    \/ TcChanged

SpecTrackChange == Init /\ [][TcNext]_vars

-----------------------------------------------------------------------------
(* fmt_speed exercised alone on quantities around every threshold of the   *)
(* staircase and on durations around every unit boundary.                   *)

Quantities ==
    {0, 1, 2, 3, 1000,
     USIZE_MAX \div 1000000000 - 1, USIZE_MAX \div 1000000000,
     USIZE_MAX \div 1000000 - 1, USIZE_MAX \div 1000000,
     USIZE_MAX \div 1000 - 1, USIZE_MAX \div 1000,
     USIZE_MAX - 1, USIZE_MAX}

Durations ==
    {Duration(0, n) : n \in {0, 1, 2, 500, 999, 1000, 1001, 1999, 2000,
                             999999, 1000000, 1000001, 2000000, 500000000,
                             999999999}}
    \cup {Duration(s, n) : s \in 1 .. 3, n \in {0, 1, 500000000}}

SpInit ==
    /\ CoordInit
    /\ ThIdle
    /\ TcIdle
    /\ sp_x \in Quantities
    /\ sp_ela \in Durations
    /\ sp_pc = "call"
    /\ sp_res = Speed(0)
    /\ SwIdle

SpCall ==
    /\ sp_pc = "call"
    /\ sp_res' = fmt_speed(sp_x, sp_ela)
    /\ sp_pc' = "returned"
    /\ UNCHANGED <<sp_x, sp_ela, coordVars, thVars, tcVars, swVars>>

SpNext == SpCall

SpecSpeed == SpInit /\ [][SpNext]_vars


-----------------------------------------------------------------------------
(* The loop of App::run exercised alone on any sequence of events, with    *)
(* the render-flush thread left out.  The engine hands over one event at a *)
(* time; the clock advances by the throttle interval before an event is    *)
(* handled or not at all, so that every update is either suppressed or     *)
(* redraws.                                                                 *)

\* every variant; Current with a path that stays the same while the file's
\* total grows, with another path, and with the empty path
StatEvents ==
    {FilesDone, FilesTotal, BytesTotal(3), BytesTotal(0), StatusOther,
     StatusError("denied"),
     Current("a", 1, 1, 2), Current("a", 2, 3, 4), Current("", 1, 1, 5)}

StEmit(ev) ==
    /\ engine_pc = "running"
    /\ worker_ch = <<>>
    /\ Len(emitted) < MaxStatEvents
    /\ worker_ch' = Append(worker_ch, ev)
    /\ emitted' = Append(emitted, ev)
    /\ engine_pc' = IF ev.kind = "Error" THEN "awaiting" ELSE "running"
    /\ UNCHANGED <<worker_tx_alive, user_ch, user_rx_alive, pc, stats, app,
                   start, ela, pb_done, flush_pc, draw_ch, objects_done, term,
                   now, handled, replies,
                   thVars, tcVars, spVars, swVars>>

StTick ==
    /\ pc = "recv"
    /\ worker_ch /= <<>> \/ ~worker_tx_alive
    /\ now < MaxStatTicks * THROTTLE_MS
    /\ now' = now + THROTTLE_MS
    /\ UNCHANGED <<worker_ch, worker_tx_alive, user_ch, user_rx_alive,
                   engine_pc, pc, stats, app, start, ela, pb_done, flush_pc,
                   draw_ch, objects_done, term, emitted, handled, replies,
                   thVars, tcVars, spVars, swVars>>

StNext ==
    \/ \E ev \in StatEvents : StEmit(ev)
    \/ EngineRecvReply
    \/ EngineClose
    \/ RecvFilesDone
    \/ RecvFilesTotal
    \/ RecvBytesTotal
    \/ RecvCurrent
    \/ RecvError
    \/ RecvOther
    \/ RecvClosed
    \/ StTick

SpecStats == Init /\ [][StNext]_vars

-----------------------------------------------------------------------------
(* The run on a well-formed engine stream over N = 1 .. MaxFiles files of  *)
(* 10, 20, 30, .. bytes: one FilesTotal and one BytesTotal(size) per file, *)
(* then per file its Current events, in one chunk or in two halves, and    *)
(* one FilesDone; then the engine drops its channel ends.  The engine      *)
(* hands over one event at a time and the render-flush thread is left out. *)

CountOf(kind, events) ==
    Cardinality({i \in 1 .. Len(events) : events[i].kind = kind})

RECURSIVE ChunkSum(_)
\* the sum of the chunk lengths of the Current events of a sequence
ChunkSum(events) ==
    IF events = <<>> THEN 0
    ELSE LET last == events[Len(events)]
             rest == SubSeq(events, 1, Len(events) - 1)
         IN  ChunkSum(rest) + (IF last.kind = "Current" THEN last.chunk ELSE 0)

FileSize(i) == 10 * i

FilePath(i) == <<"a", "b", "c", "d", "e">>[i]

RECURSIVE SizeSum(_)
\* the bytes of the first n files
SizeSum(n) == IF n = 0 THEN 0 ELSE SizeSum(n - 1) + FileSize(n)

\* the events a well-formed stream may continue with
WfNextEvents ==
    LET nFT == CountOf("FilesTotal", emitted)
        nBT == CountOf("BytesTotal", emitted)
        nFD == CountOf("FilesDone", emitted)
        copying == CountOf("Current", emitted) > 0
        i == nFD + 1
        done == ChunkSum(emitted) - SizeSum(nFD)
        rem == FileSize(i) - done
    IN  (IF ~copying /\ nFT < MaxFiles THEN {FilesTotal} ELSE {})
        \cup (IF ~copying /\ nBT < nFT
              THEN {BytesTotal(FileSize(nBT + 1))} ELSE {})
        \cup (IF nFT >= 1 /\ nBT = nFT /\ nFD < nFT
              THEN {Current(FilePath(i), c, done + c, FileSize(i)) :
                       c \in {c \in {rem, FileSize(i) \div 2} :
                                0 < c /\ c <= rem}}
              ELSE {})
        \cup (IF copying /\ nFD < nFT /\ rem = 0 THEN {FilesDone} ELSE {})

WfComplete ==
    /\ CountOf("FilesTotal", emitted) >= 1
    /\ CountOf("FilesDone", emitted) = CountOf("FilesTotal", emitted)

WfEmit(ev) ==
    /\ ev \in WfNextEvents
    /\ engine_pc = "running"
    /\ worker_ch = <<>>
    /\ worker_ch' = Append(worker_ch, ev)
    /\ emitted' = Append(emitted, ev)
    /\ UNCHANGED <<worker_tx_alive, user_ch, user_rx_alive, engine_pc, pc,
                   stats, app, start, ela, pb_done, flush_pc, draw_ch,
                   objects_done, term, now, handled, replies,
                   thVars, tcVars, spVars, swVars>>

WfClose ==
    /\ WfComplete
    /\ EngineClose

WfNext ==
    \/ \E ev \in WfNextEvents : WfEmit(ev)
    \/ WfClose
    \/ RecvFilesDone
    \/ RecvFilesTotal
    \/ RecvBytesTotal
    \/ RecvCurrent
    \/ RecvClosed
    \/ LockAndPrint
    \/ Return
    \/ StTick

SpecWellFormed == Init /\ [][WfNext]_vars

-----------------------------------------------------------------------------
(* SourceWalker::run: the thread that walks the roots and sends the paths  *)
(* of the regular files to the engine.  The file system is an input: two   *)
(* directories, one of them named in two ways, and a name that does not    *)
(* resolve.                                                                 *)

RootNames == {"a", "a/.", "b", "missing"}

\* PathBuf::canonicalize: the absolute path of the name, or an error
canonicalize(name) ==
    CASE name \in {"a", "a/."} -> [ok |-> TRUE, path |-> "/a"]
      [] name = "b" -> [ok |-> TRUE, path |-> "/b"]
      [] OTHER -> [ok |-> FALSE, path |-> ""]

Entry(type, path) == [ok |-> TRUE, type |-> type, path |-> path]
EntryErr == [ok |-> FALSE, type |-> "", path |-> ""]

\* what the iterator walkdir::WalkDir::new(root) yields: the root itself,
\* then what is below it; an unreadable directory is an Err
WalkDir(root) ==
    CASE root = "/a" -> <<Entry("dir", "/a"), Entry("file", "/a/f"), EntryErr,
                          Entry("symlink", "/a/l"), Entry("file", "/a/g")>>
      [] root = "/b" -> <<Entry("dir", "/b"), Entry("file", "/b/h")>>
      [] OTHER -> <<>>

\* the lists of roots the producer is started with: never empty
Sources == UNION {[1 .. n -> RootNames] : n \in 1 .. MaxRoots}

\* line 94: canonicalize().unwrap() panics when the root does not resolve
SwCanonicalize ==
    /\ sw_pc = "root"
    /\ sw_i <= Len(sw_sources)
    /\ LET r == canonicalize(sw_sources[sw_i]) IN
       IF r.ok
       THEN /\ sw_src' = r.path
            /\ sw_j' = 1
            /\ sw_pc' = "walk"
       ELSE /\ sw_pc' = "panicked"
            /\ UNCHANGED <<sw_src, sw_j>>
    /\ UNCHANGED <<sw_sources, sw_i, src_ch, src_rx_alive,
                   coordVars, thVars, tcVars, spVars>>

\* lines 95-105: one entry of the walk; send(..).expect("send") panics when
\* the receiver is gone
SwEntry ==
    /\ sw_pc = "walk"
    /\ sw_j <= Len(WalkDir(sw_src))
    /\ LET entry == WalkDir(sw_src)[sw_j] IN
       IF entry.ok /\ entry.type = "file"
       THEN IF src_rx_alive
            THEN /\ src_ch' = Append(src_ch, <<sw_src, entry.path>>)
                 /\ sw_j' = sw_j + 1
                 /\ UNCHANGED sw_pc
            ELSE /\ sw_pc' = "panicked"
                 /\ UNCHANGED <<src_ch, sw_j>>
       ELSE /\ sw_j' = sw_j + 1
            /\ UNCHANGED <<src_ch, sw_pc>>
    /\ UNCHANGED <<sw_sources, sw_i, sw_src, src_rx_alive,
                   coordVars, thVars, tcVars, spVars>>

\* the iterator is exhausted: the outer loop goes to the next root
SwEndRoot ==
    /\ sw_pc = "walk"
    /\ sw_j > Len(WalkDir(sw_src))
    /\ sw_i' = sw_i + 1
    /\ sw_pc' = "root"
    /\ UNCHANGED <<sw_sources, sw_j, sw_src, src_ch, src_rx_alive,
                   coordVars, thVars, tcVars, spVars>>

\* the outer loop is over: the thread ends
SwReturn ==
    /\ sw_pc = "root"
    /\ sw_i > Len(sw_sources)
    /\ sw_pc' = "done"
    /\ UNCHANGED <<sw_sources, sw_i, sw_j, sw_src, src_ch, src_rx_alive,
                   coordVars, thVars, tcVars, spVars>>

\* the engine drops its receiving end of the path channel
SrcRxDrop ==
    /\ src_rx_alive
    /\ src_rx_alive' = FALSE
    /\ UNCHANGED <<sw_sources, sw_pc, sw_i, sw_j, sw_src, src_ch,
                   coordVars, thVars, tcVars, spVars>>

SwInit ==
    /\ CoordInit
    /\ ThIdle
    /\ TcIdle
    /\ SpIdle
    /\ sw_sources \in Sources
    /\ sw_pc = "root"
    /\ sw_i = 1
    /\ sw_j = 0
    /\ sw_src = ""
    /\ src_ch = <<>>
    /\ src_rx_alive = TRUE

SwNext ==
    \/ SwCanonicalize
    \/ SwEntry
    \/ SwEndRoot
    \/ SwReturn
    \/ SrcRxDrop

SpecWalker == SwInit /\ [][SwNext]_vars

-----------------------------------------------------------------------------
(* Properties of TrackChange *)

-----------------------------------------------------------------------------
(* Properties of fmt_speed *)

\* C8: fmt_speed(0, d) yields the rate 0 for every duration d.
Cex_C8 ==
    (sp_pc = "returned" /\ sp_x = 0) => sp_res = Speed(0)

\* C9: fmt_speed never panics: no multiplication overflows and no division
\* has a zero divisor, for every quantity and every duration.
Cex_C9 ==
    sp_pc = "returned" => sp_res.panic = "no"

\* C10: for every quantity and every duration strictly greater than one
\* second the rate is the quantity integer-divided by the whole seconds,
\* however large the quantity.
Thm_C10 ==
    (sp_pc = "returned" /\ Duration_gt(sp_ela, Duration_from_secs(1)))
        => sp_res = Speed(sp_x \div as_secs(sp_ela))

\* fmt_speed(USIZE_MAX, 2 s) has returned USIZE_MAX / 2
Wit_C10 ==
    /\ sp_pc = "returned"
    /\ sp_x = USIZE_MAX
    /\ sp_ela = Duration(2, 0)
    /\ sp_res = Speed(1073741823)


\* C17: for an elapsed time above 1 microsecond and up to 1 second, and a
\* quantity below MAX/1000, the rate is the quantity times 1_000_000 divided
\* by the elapsed microseconds (bytes per second), up to integer rounding.
\* Stated on the quantities whose product with 1_000_000 is below 2^31.
Cex_C17 ==
    (/\ sp_pc = "returned"
     /\ Duration_gt(sp_ela, Duration_from_micros(1))
     /\ ~Duration_gt(sp_ela, Duration_from_secs(1))
     /\ sp_x < USIZE_MAX \div 1000
     /\ sp_x <= 2000)
        => /\ sp_res.panic = "no"
           /\ sp_res.speed - (sp_x * 1000000) \div as_micros(sp_ela) \in -1 .. 1

-----------------------------------------------------------------------------
(* Properties of the coordinator loop *)

ErrorsIn(events) ==
    Cardinality({i \in 1 .. Len(events) : events[i].kind = "Error"})

Summaries ==
    Cardinality({i \in 1 .. Len(term) : term[i].kind = "summary"})

\* the coordinator is between two events, or past the loop
BetweenEvents == pc \in {"recv", "lock", "printed", "done"}

\* C1: after each event is handled, the number of OperationControl messages
\* sent on the control channel equals the number of Status(Error) events
\* consumed so far.
Thm_C1 ==
    BetweenEvents => Len(replies) = ErrorsIn(handled)

\* an error and then another event have been handled: one reply was sent
Wit_C1 ==
    /\ pc = "recv"
    /\ Len(handled) = 2
    /\ handled[1].kind = "Error"
    /\ handled[2].kind /= "Error"
    /\ Len(replies) = 1

\* C2: every reply the coordinator sends on the control channel is Skip,
\* whatever the error message.
Thm_C2 ==
    /\ \A i \in 1 .. Len(replies) : replies[i] = "Skip"
    /\ \A i \in 1 .. Len(user_ch) : user_ch[i] = "Skip"

\* both error messages have been answered
Wit_C2 ==
    /\ \E i \in 1 .. Len(handled) : handled[i] = StatusError("disk full")
    /\ \E i \in 1 .. Len(handled) : handled[i] = StatusError("denied")
    /\ replies = <<"Skip", "Skip">>

\* errors the engine has emitted and the coordinator has not answered
Unanswered == ErrorsIn(emitted) - Len(replies)

\* C3: with an engine that blocks after Status(Error) until the reply, at
\* most one error is unanswered at any time, the reply to an error is sent
\* before any later event is consumed, and every error is eventually
\* answered.
Thm_C3 ==
    /\ [](Unanswered \in {0, 1})
    /\ [](ErrorsIn(handled) > Len(replies) => pc = "panicked")
    /\ (Unanswered = 1) ~> (Unanswered = 0)

\* two handshakes have completed and the engine runs again
Wit_C3 ==
    /\ ErrorsIn(emitted) = 2
    /\ Len(replies) = 2
    /\ user_ch = <<>>
    /\ engine_pc = "running"

AllFinished ==
    /\ app.pb_curr.finished
    /\ app.pb_files.finished
    /\ app.pb_bytes.finished
    /\ app.pb_name.finished

\* C4: after the engine closes the event channel the coordinator has handled
\* every event sent, in the order sent, before it leaves the loop; it then
\* finalizes the four regions and prints the summary line, eventually and
\* exactly once.
Thm_C4 ==
    /\ [](pc \in {"lock", "printed", "done"} => handled = emitted /\ AllFinished)
    /\ [](Summaries = IF pc \in {"printed", "done"} THEN 1 ELSE 0)
    /\ (engine_pc = "closed") ~> (pc = "done" /\ Summaries = 1)

\* the run is over after events were queued behind the coordinator
Wit_C4 ==
    /\ pc = "done"
    /\ Len(handled) >= 2
    /\ Summaries = 1
    /\ flush_pc = "exited"

\* C5: the summary line is printed only after the render-flush thread has
\* left its draw loop.
Cex_C5 ==
    Summaries > 0 => flush_pc = "exited"

-----------------------------------------------------------------------------
(* Properties of the throttle *)

\* update_progress is called in this step
UpdateCalled == upd'.n = upd.n + 1

\* the call of this step redrew: the bars sent their draw states
Redrew == Len(draw_ch') = Len(draw_ch) + 1

-----------------------------------------------------------------------------
(* Properties of the statistics *)

\* C11: after any sequence of events bytes_done is the sum of the chunk
\* lengths of the Current events handled so far (the prefix sum after the
\* k-th Current event), so no other event changes it.
Thm_C11 ==
    stats.bytes_done = ChunkSum(handled)

\* two Current events with chunks 1 and 2 and an event of another kind have
\* been handled
Wit_C11 ==
    /\ Len(handled) = 3
    /\ CountOf("Current", handled) = 2
    /\ handled[3].kind /= "Current"
    /\ stats.bytes_done = 3
    /\ stats.current_done /= stats.bytes_done

\* an event is consumed by the match of App::run in this step
EventHandled == handled' /= handled

\* C12: files_done grows by exactly 1 in the step that handles a FilesDone
\* event and is unchanged by every other step, so that it always equals the
\* number of FilesDone events handled, whatever is interleaved with them.
Thm_C12 ==
    /\ [](stats.files_done = CountOf("FilesDone", handled))
    /\ [][stats'.files_done - stats.files_done =
              IF EventHandled /\ Head(worker_ch).kind = "FilesDone"
              THEN 1 ELSE 0]_vars

\* two FilesDone events with an event of another kind between them
Wit_C12 ==
    /\ Len(handled) = 3
    /\ handled[1].kind = "FilesDone"
    /\ handled[2].kind \notin {"FilesDone", "Other"}
    /\ handled[3].kind = "FilesDone"
    /\ stats.files_done = 2

\* C13: no step makes bytes_done or files_done smaller, and the positions
\* set on the files bar and on the bytes bar never move backwards.
Thm_C13 ==
    [][/\ stats'.bytes_done >= stats.bytes_done
       /\ stats'.files_done >= stats.files_done
       /\ app'.pb_files.pos >= app.pb_files.pos
       /\ app'.pb_bytes.pos >= app.pb_bytes.pos]_vars

\* two redraws have moved the positions of both aggregate bars forward
Wit_C13 ==
    /\ Len(handled) = 3
    /\ app.pb_name.ticks = 2
    /\ app.pb_files.pos = 1
    /\ app.pb_bytes.pos = 3
    /\ stats.bytes_done = 3

\* C14: when the channel of a well-formed stream over N files has closed,
\* files_done = files_total = N and bytes_done = bytes_total = the sum of
\* the sizes, and the summary line reports N files and that byte total.
Thm_C14 ==
    LET N == CountOf("FilesTotal", emitted) IN
    /\ pc \in {"lock", "printed", "done"} =>
          /\ WfComplete
          /\ stats.files_done = N
          /\ stats.files_total.val = N
          /\ stats.bytes_done = SizeSum(N)
          /\ stats.bytes_total.val = SizeSum(N)
    /\ pc \in {"printed", "done"} =>
          /\ Summaries = 1
          /\ \A i \in 1 .. Len(term) :
                term[i].files = N /\ term[i].bytes = SizeSum(N)

\* three files of 10, 20 and 30 bytes, one of them copied in two chunks:
\* the summary reports 3 files and 60 bytes
Wit_C14 ==
    /\ pc = "done"
    /\ CountOf("Current", handled) > 3
    /\ stats.files_done = 3
    /\ stats.bytes_done = 60
    /\ Len(term) = 1
    /\ term[1].kind = "summary"
    /\ term[1].files = 3
    /\ term[1].bytes = 60

-----------------------------------------------------------------------------
(* Properties of the bars *)

\* an update_progress call of the loop redrew in this step
LoopRedrew == EventHandled /\ Len(draw_ch') = Len(draw_ch) + 1

\* C18: a change of a total is never lost to the throttle: once a FilesTotal
\* (BytesTotal) event has been handled, either the dirty flag of the total is
\* still set or the bar's length is the total; and once both kinds have been
\* handled, right after every redraw the lengths of the files and bytes bars
\* are files_total and bytes_total and their positions files_done and
\* bytes_done.
Thm_C18 ==
    /\ [](CountOf("FilesTotal", handled) >= 1 =>
             \/ stats.files_total.changed
             \/ app.pb_files.len = stats.files_total.val)
    /\ [](CountOf("BytesTotal", handled) >= 1 =>
             \/ stats.bytes_total.changed
             \/ app.pb_bytes.len = stats.bytes_total.val)
    /\ [][(/\ LoopRedrew
           /\ CountOf("FilesTotal", handled') >= 1
           /\ CountOf("BytesTotal", handled') >= 1)
            => /\ app'.pb_files.len = stats'.files_total.val
               /\ app'.pb_bytes.len = stats'.bytes_total.val
               /\ app'.pb_files.pos = stats'.files_done
               /\ app'.pb_bytes.pos = stats'.bytes_done
               /\ ~stats'.files_total.changed
               /\ ~stats'.bytes_total.changed]_vars

\* both totals changed while updates were suppressed, and the one redraw
\* that followed a later event resized both bars
Wit_C18 ==
    /\ handled = <<FilesTotal, BytesTotal(3), FilesDone>>
    /\ app.pb_name.ticks = 1
    /\ app.last_update = now
    /\ app.pb_files.len = 1
    /\ app.pb_bytes.len = 3
    /\ app.pb_files.pos = 1

\* C19: once a Current event has been handled, right after every redraw the
\* length of the current-file bar is current_total and its position is
\* current_done.
Cex_C19 ==
    [][(LoopRedrew /\ CountOf("Current", handled') >= 1)
          => /\ app'.pb_curr.len = stats'.current_total.val
             /\ app'.pb_curr.pos = stats'.current_done]_vars

\* C20: when the channel has closed and the four bars are finished, the last
\* position set on the files bar is the final files_done and the last
\* position set on the bytes bar is the final bytes_done.
Cex_C20 ==
    (pc = "lock" /\ AllFinished)
        => /\ app.pb_files.pos = stats.files_done
           /\ app.pb_bytes.pos = stats.bytes_done

-----------------------------------------------------------------------------
(* Properties of the path producer *)

\* the (canonical root, path) pairs of the regular files the walk of one
\* root finds, in the order of the walk
FilesOf(name) ==
    LET r == canonicalize(name)
        w == WalkDir(r.path)
    IN  SelectSeq([j \in 1 .. Len(w) |-> <<r.path, w[j]>>],
                  LAMBDA e : e[2].ok /\ e[2].type = "file")

RECURSIVE FilesOfRoots(_)
\* the pairs of the regular files under every root, root after root
FilesOfRoots(roots) ==
    IF roots = <<>> THEN <<>>
    ELSE LET last == FilesOf(roots[Len(roots)])
         IN  FilesOfRoots(SubSeq(roots, 1, Len(roots) - 1))
             \o [j \in 1 .. Len(last) |-> <<last[j][1], last[j][2].path>>]

\* the producer thread has ended
SwEnded == sw_pc \in {"done", "panicked"}

\* C15: when the producer has ended with the receiver alive it has sent the
\* pair of every regular file under every root exactly once, nothing for a
\* directory or another entry, and every pair of an earlier root before any
\* pair of a later root.
Cex_C15 ==
    (SwEnded /\ src_rx_alive) => src_ch = FilesOfRoots(sw_sources)

\* C16: a root that fails does not stop the producer: only a failed send
\* ends the thread before its loop is over, and with the receiver alive
\* every regular file of every root that resolves has been sent when the
\* thread has ended.
Cex_C16 ==
    /\ sw_pc = "panicked" => ~src_rx_alive
    /\ (SwEnded /\ src_rx_alive) =>
          \A i \in 1 .. Len(sw_sources) :
             \A j \in 1 .. Len(FilesOf(sw_sources[i])) :
                \E k \in 1 .. Len(src_ch) :
                   src_ch[k] = <<FilesOf(sw_sources[i])[j][1],
                                 FilesOf(sw_sources[i])[j][2].path>>

=============================================================================
